---- MODULE Spec2Model ----
(***************************************************************************)
(* EME controller of hls.js (src/controller/eme-controller.js) as a state  *)
(* machine: key-system negotiation, key-session creation, license          *)
(* exchange with retry, key-status monitoring and teardown on detach.      *)
(*                                                                         *)
(* One action is one task of the single-threaded event loop: a handler     *)
(* together with every promise reaction (microtask) it makes runnable.     *)
(* Platform promises (access query, CDM creation, policy query,            *)
(* generateRequest, close, setMediaKeys(null)) and the license XHR settle  *)
(* in tasks of their own, at any later time.                               *)
(***************************************************************************)
EXTENDS Naturals, Sequences, FiniteSets, TLC

\* ---------------------------------------------------------------- constants

MAX_LICENSE_REQUEST_FAILURES == 3

WIDEVINE == "com.widevine.alpha"
PLAYREADY == "com.microsoft.playready"
\* the value of `keySystem` in onManifestParsed when no license URL is set
UndefinedKeySystem == "undefined"

KEY_SYSTEM_NO_KEYS == "KEY_SYSTEM_NO_KEYS"
KEY_SYSTEM_NO_ACCESS == "KEY_SYSTEM_NO_ACCESS"
KEY_SYSTEM_NO_SESSION == "KEY_SYSTEM_NO_SESSION"
KEY_SYSTEM_NO_INIT_DATA == "KEY_SYSTEM_NO_INIT_DATA"
KEY_SYSTEM_LICENSE_REQUEST_FAILED == "KEY_SYSTEM_LICENSE_REQUEST_FAILED"
KEY_SYSTEM_INVALID_HDCP_VERSION == "KEY_SYSTEM_INVALID_HDCP_VERSION"
KEY_SYSTEM_LICENSE_INVALID_STATUS == "KEY_SYSTEM_LICENSE_INVALID_STATUS"

\* ------------------------------------------------------------------- bounds

\* access queries started under SpecRenegotiate
MaxFlows == 2
\* access queries started under Spec
MaxNegotiations == 1
\* media elements the host can attach
NumMedia == 1
\* 'encrypted' continuations waiting on one unsettled negotiation
MaxWaiters == 1
\* value of the failure counter up to which a non-200 response is considered
MaxFailureCount == 5
\* license XHRs in flight at a time
MaxInFlight == 1
\* detaches that start a teardown
MaxDetach == 1
\* entries of a key-status collection
MaxStatuses == 2

\* levels of a manifest
MaxLevels == 2
NumTargets == 1
NumHandlers == 2
MaxOnce == 1
MaxBindings == 3

Flows == 1..MaxFlows
Media == 1..NumMedia
Exchanges == 1..MaxInFlight

\* ------------------------------------------------------------------- state

VARIABLES
  config,                       \* hls.config as read by the constructor
  _hasSetMediaKeys,             \* this._hasSetMediaKeys
  _media,                       \* this._media: 0 is null, else a media element
  _mediaKeysList,               \* this._mediaKeysList: sequence of item ids
  _mediaKeysPromise,            \* this._mediaKeysPromise: 0 is null, else a flow
  _requestLicenseFailureCount,  \* this._requestLicenseFailureCount
  promises,                     \* per access flow: the promise stored in _mediaKeysPromise
  items,                        \* per access flow: the mediaKeysListItem it creates
  sessions,                     \* per item: its platform MediaKeySession
  elementKeys,                  \* per media element: its mediaKeys (0 is null)
  xhrs,                         \* the license XHRs, by slot
  teardowns,                    \* the promise chains started by onMediaDetached
  keysSetSinceAttach,           \* setMediaKeys(non-null) calls since the last attach
  bindingList,                  \* EventManager: this.bindingList
  listeners,                    \* EventManager: the listeners registered on the targets
  out                           \* events triggered and platform calls made by the last task

vars == <<config, _hasSetMediaKeys, _media, _mediaKeysList, _mediaKeysPromise,
          _requestLicenseFailureCount, promises, items, sessions, elementKeys,
          xhrs, teardowns, keysSetSinceAttach, bindingList, listeners, out>>

\* ------------------------------------------------------------ observations

Ev(t, id, d, fatal, data, n) ==
  [t |-> t, id |-> id, d |-> d, fatal |-> fatal, data |-> data, n |-> n]

\* ErrorTypes.KEY_SYSTEM_ERROR
KEY_SYSTEM_ERROR == "keySystemError"

\* this.hls.trigger(Event.ERROR, {type: KEY_SYSTEM_ERROR, details, fatal})
ErrorEvent(details, fatal) == Ev("error", 0, details, fatal, <<KEY_SYSTEM_ERROR>>, 0)

\* this.hls.trigger(Event.EME_DESTROYED, {})
EmeDestroyed == Ev("EME_DESTROYED", 0, "", FALSE, <<>>, 0)

\* a call the controller makes on the platform
Call(name, id, data, n) == Ev(name, id, "", FALSE, data, n)

_throwLicenseSystemError == ErrorEvent(KEY_SYSTEM_LICENSE_REQUEST_FAILED, TRUE)

Min(a, b) == IF a < b THEN a ELSE b

\* ------------------------------------------------------------- constructor

NoPromise == [phase |-> "none", keySystem |-> UndefinedKeySystem, waiters |-> <<>>]
NoItem == [pushed |-> FALSE, mediaKeys |-> FALSE, mediaKeysSession |-> FALSE,
           mediaKeysSessionInitialized |-> FALSE]
NoSession == [generateRequestCalls |-> 0, request |-> "none", closed |-> FALSE]
NoKeyMessage == [raw |-> <<>>, hasChallenge |-> FALSE, challenge |-> <<>>,
                 names |-> 0, values |-> 0]
NoXhr == [state |-> "none", session |-> 0, keyMessage |-> NoKeyMessage,
          sends |-> 0]

\* a property that an options object does not have
Absent == "<absent>"

\* hls.config.drmSystemOptions: undefined or {} gives both properties absent
NoDrmSystemOptions == [audioRobustness |-> Absent, videoRobustness |-> Absent]

\* the values of a robustness option: absent, empty, or a robustness level
RobustnessOptions == {Absent, "", "HW_SECURE_ALL"}

Configs ==
  [emeEnabled : BOOLEAN, playreadyLicenseUrl : BOOLEAN, widevineLicenseUrl : BOOLEAN,
   requestMediaKeySystemAccessFunc : BOOLEAN, minHdcpVersion : BOOLEAN,
   drmSystemOptions : {NoDrmSystemOptions}]

\* the controller as constructed from one of the configurations `configs`
InitFrom(configs) ==
  /\ config \in configs
  /\ _hasSetMediaKeys = FALSE
  /\ _media = 0
  /\ _mediaKeysList = <<>>
  /\ _mediaKeysPromise = 0
  /\ _requestLicenseFailureCount = 0
  /\ promises = [f \in Flows |-> NoPromise]
  /\ items = [f \in Flows |-> NoItem]
  /\ sessions = [f \in Flows |-> NoSession]
  /\ elementKeys = [m \in Media |-> 0]
  /\ xhrs = [x \in Exchanges |-> NoXhr]
  /\ teardowns = <<>>
  /\ keysSetSinceAttach = 0
  /\ bindingList = <<>>
  /\ listeners = {}
  /\ out = <<>>

Init == InitFrom(Configs)

\* --------------------------------------- the part of the state a task threads

Ctx == [has |-> _hasSetMediaKeys, items |-> items, sessions |-> sessions,
        elementKeys |-> elementKeys, keysSet |-> keysSetSinceAttach, out |-> <<>>]

Emit(c, ev) == [c EXCEPT !.out = Append(@, ev)]

\* ---------------------------------------------------- _attemptSetMediaKeys

\* mutation of _attemptSetMediaKeys: the latch is not set after the call
SetMediaKeysWithoutLatch(c) ==
  IF c.has THEN c
  ELSE IF _mediaKeysList = <<>> \/ ~c.items[_mediaKeysList[1]].mediaKeys
       THEN Emit(c, ErrorEvent(KEY_SYSTEM_NO_KEYS, TRUE))
       ELSE [Emit(c, Call("setMediaKeys", _media, <<_mediaKeysList[1]>>, 0))
               EXCEPT !.elementKeys[_media] = _mediaKeysList[1],
                      !.keysSet = Min(@ + 1, 2)]

_attemptSetMediaKeys(c) ==
  IF c.has THEN c
  ELSE IF _mediaKeysList = <<>> \/ ~c.items[_mediaKeysList[1]].mediaKeys
       THEN Emit(c, ErrorEvent(KEY_SYSTEM_NO_KEYS, TRUE))
       ELSE [Emit(c, Call("setMediaKeys", _media, <<_mediaKeysList[1]>>, 0))
               EXCEPT !.elementKeys[_media] = _mediaKeysList[1],
                      !.has = TRUE,
                      !.keysSet = Min(@ + 1, 2)]

\* --------------------------------- _generateRequestWithPreferredKeySession

\* mutations of AlreadyInitialized: the guard never holds; it asks for no session
NeverInitialized(item) == FALSE
InitializedWithoutSession(item) ==
  item.mediaKeysSessionInitialized /\ ~item.mediaKeysSession

\* the guard `if (keysListItem.mediaKeysSessionInitialized)`
AlreadyInitialized(item) == item.mediaKeysSessionInitialized

\* mutation of NoInitData: null init data is let through
InitDataNotChecked(initData) == FALSE

\* the guard `if (!initData)`
NoInitData(initData) == initData = 0

_generateRequestWithPreferredKeySession(c, initData) ==
  IF _mediaKeysList = <<>> THEN Emit(c, ErrorEvent(KEY_SYSTEM_NO_ACCESS, TRUE))
  ELSE LET r == _mediaKeysList[1] IN
    IF AlreadyInitialized(c.items[r]) THEN c
    ELSE IF ~c.items[r].mediaKeysSession
         THEN Emit(c, ErrorEvent(KEY_SYSTEM_NO_SESSION, TRUE))
    ELSE IF NoInitData(initData)
         THEN Emit(c, ErrorEvent(KEY_SYSTEM_NO_INIT_DATA, TRUE))
    ELSE [Emit(c, Call("generateRequest", r, <<initData>>, 0))
            EXCEPT !.items[r].mediaKeysSessionInitialized = TRUE,
                   !.sessions[r].generateRequestCalls = Min(@ + 1, 2),
                   !.sessions[r].request = "pending"]

\* mutation of finallySetKeyAndStartSession: the bound element is not tested
ContinuationWithoutMedia(c, initData) ==
  _generateRequestWithPreferredKeySession(_attemptSetMediaKeys(c), initData)

\* mutation of finallySetKeyAndStartSession: the `catch` runs it again
ContinuationRunAgain(c, initData) ==
  IF _media = 0 THEN c
  ELSE LET once == _generateRequestWithPreferredKeySession(_attemptSetMediaKeys(c), initData)
       IN _generateRequestWithPreferredKeySession(_attemptSetMediaKeys(once), initData)

\* the continuation _onMediaEncrypted attaches to _mediaKeysPromise
finallySetKeyAndStartSession(c, initData) ==
  IF _media = 0 THEN c
  ELSE _generateRequestWithPreferredKeySession(_attemptSetMediaKeys(c), initData)

\* the continuations waiting on a promise, run in the order they were attached
RECURSIVE RunWaiters(_, _)
RunWaiters(c, ws) ==
  IF ws = <<>> THEN c
  ELSE RunWaiters(finallySetKeyAndStartSession(c, Head(ws)), Tail(ws))

\* writes back what a task threaded
Commit(c) ==
  /\ _hasSetMediaKeys' = c.has
  /\ items' = c.items
  /\ sessions' = c.sessions
  /\ elementKeys' = c.elementKeys
  /\ keysSetSinceAttach' = c.keysSet
  /\ out' = c.out

\* ------------------------------------------------------- onMediaAttached

onMediaAttached(m) ==
  /\ _media = 0
  /\ out' = <<>>
  /\ IF ~config.emeEnabled
     THEN UNCHANGED <<_media, keysSetSinceAttach>>
     ELSE /\ _media' = m
          /\ keysSetSinceAttach' = 0
  /\ UNCHANGED <<bindingList, listeners>>
  /\ UNCHANGED <<config, _hasSetMediaKeys, _mediaKeysList, _mediaKeysPromise,
                 _requestLicenseFailureCount, promises, items, sessions,
                 elementKeys, xhrs, teardowns>>

\* -------------------------------------------------------- _onMediaEncrypted

\* mutation of NoKeysRequested: the error is not fatal
NoKeysRequestedNotFatal == ErrorEvent(KEY_SYSTEM_NO_KEYS, FALSE)

\* the event triggered when 'encrypted' finds no _mediaKeysPromise
NoKeysRequested == ErrorEvent(KEY_SYSTEM_NO_KEYS, TRUE)

_onMediaEncrypted(initData) ==
  /\ _media # 0
  /\ IF _mediaKeysPromise = 0
     THEN /\ out' = <<NoKeysRequested>>
          /\ UNCHANGED <<_hasSetMediaKeys, items, sessions, elementKeys,
                         keysSetSinceAttach, promises>>
     ELSE IF promises[_mediaKeysPromise].phase \in {"resolved", "rejected"}
     THEN /\ Commit(finallySetKeyAndStartSession(Ctx, initData))
          /\ UNCHANGED promises
     ELSE /\ Len(promises[_mediaKeysPromise].waiters) < MaxWaiters
          /\ promises' = [promises EXCEPT ![_mediaKeysPromise].waiters = Append(@, initData)]
          /\ out' = <<>>
          /\ UNCHANGED <<_hasSetMediaKeys, items, sessions, elementKeys,
                         keysSetSinceAttach>>
  /\ UNCHANGED <<bindingList, listeners>>
  /\ UNCHANGED <<config, _media, _mediaKeysList, _mediaKeysPromise,
                 _requestLicenseFailureCount, xhrs, teardowns>>

\* ------------------------------------------------------- onManifestParsed

\* mutation of Robustness: the option is passed as it is
RobustnessAsGiven(option) == option

\* `drmSystemOptions.audioRobustness || ''`
Robustness(option) == IF option \in {Absent, ""} THEN "" ELSE option

\* the capability entries pushed by `codecs.forEach`, for kind "audio" or "video"
Capabilities(kind, codecs, option) ==
  [i \in 1..Len(codecs) |->
     [contentType |-> kind \o "/mp4; codecs=\"" \o codecs[i] \o "\"",
      robustness |-> Robustness(option)]]

createWidevineMediaKeySystemConfigurations(audioCodecs, videoCodecs, drmSystemOptions) ==
  <<[initDataTypes |-> <<>>,
     audioCapabilities |-> Capabilities("audio", audioCodecs, drmSystemOptions.audioRobustness),
     videoCapabilities |-> Capabilities("video", videoCodecs, drmSystemOptions.videoRobustness)]>>

createPlayreadyMediaKeySystemConfigurations(audioCodecs, videoCodecs, drmSystemOptions) ==
  <<[initDataTypes |-> <<"cenc">>,
     audioCapabilities |-> Capabilities("audio", audioCodecs, drmSystemOptions.audioRobustness),
     videoCapabilities |-> Capabilities("video", videoCodecs, drmSystemOptions.videoRobustness)]>>

\* getSupportedMediaKeySystemConfigurations throws for any other identifier
KnownKeySystem(keySystem) == keySystem \in {WIDEVINE, PLAYREADY}

\* the configurations returned; <<>> stands for the undefined left by the throw
getSupportedMediaKeySystemConfigurations(keySystem, audioCodecs, videoCodecs, drmSystemOptions) ==
  IF keySystem = WIDEVINE
  THEN createWidevineMediaKeySystemConfigurations(audioCodecs, videoCodecs, drmSystemOptions)
  ELSE IF keySystem = PLAYREADY
  THEN createPlayreadyMediaKeySystemConfigurations(audioCodecs, videoCodecs, drmSystemOptions)
  ELSE <<>>

\* a level of the manifest: its codecs, "undefined" where the level names none
Levels == [audioCodec : {"mp4a.40.2", "undefined"}, videoCodec : {"avc1.42E01E", "undefined"}]

LevelLists == UNION {[1..n -> Levels] : n \in 0..MaxLevels}

\* the manifest of the lifecycle specifications: one level
OneLevel == {<<[audioCodec |-> "mp4a.40.2", videoCodec |-> "avc1.42E01E"]>>}

\* mutation of SelectedKeySystem: the Widevine URL is looked at first
WidevinePreferred ==
  IF config.widevineLicenseUrl THEN WIDEVINE
  ELSE IF config.playreadyLicenseUrl THEN PLAYREADY
  ELSE UndefinedKeySystem

\* the key-system onManifestParsed selects from the configured license URLs
SelectedKeySystem ==
  IF config.playreadyLicenseUrl THEN PLAYREADY
  ELSE IF config.widevineLicenseUrl THEN WIDEVINE
  ELSE UndefinedKeySystem

\* the flows whose access query has not been started yet, among the first `limit`
FreeFlows(limit) == {f \in 1..limit : promises[f].phase = "none"}

\* mutation of AttemptErrors: a missing access function goes unreported
AttemptErrorsWithoutGetter(keySystem) ==
  IF KnownKeySystem(keySystem) THEN <<>> ELSE <<_throwLicenseSystemError>>

\* _attemptKeySystemAccess: the errors it triggers before the access query
AttemptErrors(keySystem) ==
  (IF KnownKeySystem(keySystem) THEN <<>> ELSE <<_throwLicenseSystemError>>)
  \o (IF config.requestMediaKeySystemAccessFunc THEN <<>> ELSE <<_throwLicenseSystemError>>)

_attemptKeySystemAccess(keySystem, audioCodecs, videoCodecs, pre, limit) ==
  IF ~config.requestMediaKeySystemAccessFunc
  THEN \* the getter returns undefined and calling it throws a TypeError
       /\ out' = pre \o AttemptErrors(keySystem)
       /\ UNCHANGED <<_mediaKeysPromise, promises>>
  ELSE /\ FreeFlows(limit) # {}
       /\ LET f == CHOOSE g \in FreeFlows(limit) : \A h \in FreeFlows(limit) : g <= h IN
            /\ promises' = [promises EXCEPT ![f] =
                 [phase |-> "access", keySystem |-> keySystem, waiters |-> <<>>]]
            /\ _mediaKeysPromise' = f
            /\ out' = pre \o AttemptErrors(keySystem)
                 \o <<Call("requestMediaKeySystemAccess", f,
                           getSupportedMediaKeySystemConfigurations(
                             keySystem, audioCodecs, videoCodecs,
                             config.drmSystemOptions), 0)>>

onManifestParsed(levels, limit) ==
  /\ IF ~config.emeEnabled
     THEN /\ out' = <<>>
          /\ UNCHANGED <<_mediaKeysPromise, promises>>
     ELSE _attemptKeySystemAccess(SelectedKeySystem,
            [i \in 1..Len(levels) |-> levels[i].audioCodec],
            [i \in 1..Len(levels) |-> levels[i].videoCodec],
            IF SelectedKeySystem = UndefinedKeySystem
            THEN <<_throwLicenseSystemError>> ELSE <<>>,
            limit)
  /\ UNCHANGED <<bindingList, listeners>>
  /\ UNCHANGED <<config, _hasSetMediaKeys, _media, _mediaKeysList,
                 _requestLicenseFailureCount, items, sessions, elementKeys,
                 xhrs, teardowns, keysSetSinceAttach>>

\* ------------------------------------------------------ _onMediaKeysCreated

\* creates a session for every tracked item lacking one; an item whose
\* mediaKeys is still undefined makes `mediaKeys.createSession()` throw
RECURSIVE CreateSessions(_, _)
CreateSessions(c, list) ==
  IF list = <<>> THEN [c |-> c, threw |-> FALSE]
  ELSE LET r == Head(list) IN
    IF c.items[r].mediaKeysSession THEN CreateSessions(c, Tail(list))
    ELSE IF ~c.items[r].mediaKeys THEN [c |-> c, threw |-> TRUE]
    ELSE CreateSessions(
           [Emit(c, Call("createSession", r, <<>>, 0))
              EXCEPT !.items[r].mediaKeysSession = TRUE,
                     !.sessions[r] = NoSession],
           Tail(list))

_onMediaKeysCreated(c) == CreateSessions(c, _mediaKeysList)

\* ------------------------------------------ settling of _mediaKeysPromise

\* the promise of flow f settles: its phase, then its waiting continuations
Settle(f, c, phase) ==
  /\ Commit(RunWaiters(c, promises[f].waiters))
  /\ promises' = [promises EXCEPT ![f].phase = phase, ![f].waiters = <<>>]

\* mutation of NoAccessError: the error is not fatal
NoAccessNotFatal == ErrorEvent(KEY_SYSTEM_NO_ACCESS, FALSE)

\* the event triggered by keySystemAccessPromise.catch
NoAccessError == ErrorEvent(KEY_SYSTEM_NO_ACCESS, TRUE)

\* the platform rejects the access query
AccessRejected(f) ==
  /\ promises[f].phase = "access"
  /\ Settle(f, Emit(Ctx, NoAccessError), "rejected")
  /\ UNCHANGED <<bindingList, listeners>>
  /\ UNCHANGED <<config, _media, _mediaKeysList, _mediaKeysPromise,
                 _requestLicenseFailureCount, xhrs, teardowns>>

\* the platform grants access: _onMediaKeySystemAccessObtained up to createMediaKeys()
_onMediaKeySystemAccessObtained(f) ==
  /\ promises[f].phase = "access"
  /\ KnownKeySystem(promises[f].keySystem)
  /\ items' = [items EXCEPT ![f] = [NoItem EXCEPT !.pushed = TRUE]]
  /\ _mediaKeysList' = Append(_mediaKeysList, f)
  /\ promises' = [promises EXCEPT ![f].phase = "createMediaKeys"]
  /\ out' = <<Call("createMediaKeys", f, <<>>, 0)>>
  /\ UNCHANGED <<bindingList, listeners>>
  /\ UNCHANGED <<config, _hasSetMediaKeys, _media, _mediaKeysPromise,
                 _requestLicenseFailureCount, sessions, elementKeys, xhrs,
                 teardowns, keysSetSinceAttach>>

\* createMediaKeys() rejects: logged, no event
CreateMediaKeysRejected(f) ==
  /\ promises[f].phase = "createMediaKeys"
  /\ Settle(f, Ctx, "rejected")
  /\ UNCHANGED <<bindingList, listeners>>
  /\ UNCHANGED <<config, _media, _mediaKeysList, _mediaKeysPromise,
                 _requestLicenseFailureCount, xhrs, teardowns>>

\* createMediaKeys() resolves: the second `then` of _onMediaKeySystemAccessObtained
MediaKeysCreated(f, hasGetStatusForPolicy) ==
  /\ promises[f].phase = "createMediaKeys"
  /\ LET c0 == [Ctx EXCEPT !.items[f].mediaKeys = TRUE] IN
       IF config.minHdcpVersion /\ hasGetStatusForPolicy
       THEN /\ Commit(Emit(c0, Call("getStatusForPolicy", f, <<>>, 0)))
            /\ promises' = [promises EXCEPT ![f].phase = "getStatusForPolicy"]
       ELSE LET r == _onMediaKeysCreated(c0) IN
              Settle(f, r.c, IF r.threw THEN "rejected" ELSE "resolved")
  /\ UNCHANGED <<bindingList, listeners>>
  /\ UNCHANGED <<config, _media, _mediaKeysList, _mediaKeysPromise,
                 _requestLicenseFailureCount, xhrs, teardowns>>

\* getStatusForPolicy() settles: "usable", another status, or a rejection
PolicyStatuses == {"usable", "output-restricted", "rejected"}

StatusForPolicy(f, status) ==
  /\ promises[f].phase = "getStatusForPolicy"
  /\ IF status = "usable"
     THEN Settle(f, _onMediaKeysCreated(Ctx).c, "resolved")
     ELSE IF status = "rejected"
     THEN Settle(f, Emit(Ctx, ErrorEvent(KEY_SYSTEM_INVALID_HDCP_VERSION, TRUE)), "rejected")
     ELSE \* the rejection made inside `then` reaches no handler
          Settle(f, Ctx, "resolved")
  /\ UNCHANGED <<bindingList, listeners>>
  /\ UNCHANGED <<config, _media, _mediaKeysList, _mediaKeysPromise,
                 _requestLicenseFailureCount, xhrs, teardowns>>

\* ---------------------------------------------------------- key messages

B64Alphabet ==
  <<"A","B","C","D","E","F","G","H","I","J","K","L","M","N","O","P",
    "Q","R","S","T","U","V","W","X","Y","Z","a","b","c","d","e","f",
    "g","h","i","j","k","l","m","n","o","p","q","r","s","t","u","v",
    "w","x","y","z","0","1","2","3","4","5","6","7","8","9","+","/">>

B64Value(ch) ==
  IF ch = "=" THEN 0 ELSE (CHOOSE i \in 1..Len(B64Alphabet) : B64Alphabet[i] = ch) - 1

\* atob of one 4-character group, as char codes
AtobGroup(g) ==
  LET n == B64Value(g[1]) * 262144 + B64Value(g[2]) * 4096
           + B64Value(g[3]) * 64 + B64Value(g[4])
      bytes == <<n \div 65536, (n \div 256) % 256, n % 256>>
      pad == Cardinality({i \in 3..4 : g[i] = "="})
  IN SubSeq(bytes, 1, 3 - pad)

\* window.atob
RECURSIVE atob(_)
atob(text) ==
  IF Len(text) < 4 THEN <<>>
  ELSE AtobGroup(SubSeq(text, 1, 4)) \o atob(SubSeq(text, 5, Len(text)))

\* a Widevine key message: opaque bytes
RawMessage(bytes) == [NoKeyMessage EXCEPT !.raw = bytes]

\* a PlayReady key message: UTF-16 XML, given by what DOMParser finds in it
XmlMessage(hasChallenge, challenge, names, values) ==
  [raw |-> <<>>, hasChallenge |-> hasChallenge, challenge |-> challenge,
   names |-> names, values |-> values]

\* the 'message' payloads a CDM of the key-system raises
KeyMessages(keySystem) ==
  IF keySystem = PLAYREADY
  THEN {XmlMessage(TRUE, <<"Q","k","I","=">>, 2, 2),
        XmlMessage(FALSE, <<>>, 1, 1),
        XmlMessage(TRUE, <<"Q","Q","=","=">>, 2, 1),
        XmlMessage(TRUE, <<"Q","Q","=","=">>, 1, 2)}
  ELSE {RawMessage(<<1>>), RawMessage(<<2>>)}

\* the bodies of license responses
Responses == {<<8>>, <<9>>}

\* ------------------------------------------------------ license exchange

\* getLicenseServerUrl: whether a URL is configured for the key-system
getLicenseServerUrl(keySystem) ==
  IF keySystem = WIDEVINE THEN config.widevineLicenseUrl
  ELSE IF keySystem = PLAYREADY THEN config.playreadyLicenseUrl
  ELSE FALSE

\* mutation of _generateLicenseRequestChallenge: the Widevine challenge is lost
ChallengeWithoutBody(keySystem, keyMessage) ==
  [errors |-> <<>>, threw |-> FALSE, challenge |-> <<>>, headers |-> 0]

\* errors: the error events triggered; threw: a TypeError left the function;
\* challenge: the value returned (<<>> for undefined); headers: setRequestHeader calls
_generateLicenseRequestChallenge(keySystem, keyMessage) ==
  IF keySystem = PLAYREADY
  THEN [errors |-> (IF keyMessage.hasChallenge THEN <<>> ELSE <<_throwLicenseSystemError>>)
                   \o (IF keyMessage.names # keyMessage.values
                       THEN <<_throwLicenseSystemError>> ELSE <<>>),
        threw |-> keyMessage.names > keyMessage.values,
        challenge |-> IF keyMessage.hasChallenge THEN atob(keyMessage.challenge) ELSE <<>>,
        headers |-> Min(keyMessage.names, keyMessage.values)]
  ELSE IF keySystem = WIDEVINE
  THEN [errors |-> <<>>, threw |-> FALSE, challenge |-> keyMessage.raw, headers |-> 0]
  ELSE [errors |-> <<_throwLicenseSystemError>>, threw |-> FALSE,
        challenge |-> <<>>, headers |-> 0]

\* _requestLicense for exchange x: whether xhr.send was called, and what was observed
_requestLicense(x, keyMessage) ==
  IF _mediaKeysList = <<>>
  THEN [sent |-> FALSE, out |-> <<ErrorEvent(KEY_SYSTEM_NO_ACCESS, TRUE)>>]
  ELSE LET keySystem == promises[_mediaKeysList[1]].keySystem
           urlErrors == IF getLicenseServerUrl(keySystem) THEN <<>>
                        ELSE <<_throwLicenseSystemError>>
           g == _generateLicenseRequestChallenge(keySystem, keyMessage)
       IN IF g.threw
          THEN [sent |-> FALSE,
                out |-> urlErrors \o g.errors \o <<_throwLicenseSystemError>>]
          ELSE [sent |-> TRUE,
                out |-> urlErrors \o g.errors
                        \o <<Call("xhr.send", x, g.challenge, g.headers)>>]

\* the XHR slots not holding a request in flight
FreeXhrs == {x \in Exchanges : xhrs[x].state # "sent"}

\* a session can raise events once generateRequest was called and until it is closed
SessionLive(s) ==
  /\ items[s].mediaKeysSession
  /\ sessions[s].request \in {"pending", "resolved"}
  /\ ~sessions[s].closed

\* the session's 'message' listener
_onKeySessionMessage(s, keyMessage) ==
  /\ SessionLive(s)
  /\ FreeXhrs # {}
  /\ LET x == CHOOSE y \in FreeXhrs : \A z \in FreeXhrs : y <= z
         r == _requestLicense(x, keyMessage)
     IN /\ xhrs' = [xhrs EXCEPT ![x] =
                      IF r.sent
                      THEN [state |-> "sent", session |-> s, keyMessage |-> keyMessage,
                            sends |-> 1]
                      ELSE NoXhr]
        /\ out' = r.out
  /\ UNCHANGED <<bindingList, listeners>>
  /\ UNCHANGED <<config, _hasSetMediaKeys, _media, _mediaKeysList, _mediaKeysPromise,
                 _requestLicenseFailureCount, promises, items, sessions,
                 elementKeys, teardowns, keysSetSinceAttach>>

\* mutations of RetryAllowed: one retry more, one retry less
RetryOnceMore(count) == count <= MAX_LICENSE_REQUEST_FAILURES + 1
RetryOnceLess(count) == count < MAX_LICENSE_REQUEST_FAILURES

\* `this._requestLicenseFailureCount <= MAX_LICENSE_REQUEST_FAILURES`, after the increment
RetryAllowed(count) == count <= MAX_LICENSE_REQUEST_FAILURES

\* mutation of LicenseReceived: a closed session is not updated
LicenseDroppedWhenClosed(x, response) ==
  IF sessions[xhrs[x].session].closed
  THEN <<>>
  ELSE <<Call("update", xhrs[x].session, response, 0)>>

\* mutation of LicenseReceived: the callback is invoked twice
LicenseReceivedTwice(x, response) ==
  <<Call("update", xhrs[x].session, response, 0),
    Call("update", xhrs[x].session, response, 0)>>

\* `callback(xhr.response)`, the callback being `keySession.update(data)`
LicenseReceived(x, response) == <<Call("update", xhrs[x].session, response, 0)>>

\* xhr.onreadystatechange with readyState 4; an exchange that ended frees its slot
_onLicenseRequestReadyStageChange(x, status200, response) ==
  /\ xhrs[x].state = "sent"
  /\ IF status200
     THEN /\ _requestLicenseFailureCount' = 0
          /\ xhrs' = [xhrs EXCEPT ![x] = NoXhr]
          /\ out' = LicenseReceived(x, response)
     ELSE /\ _requestLicenseFailureCount < MaxFailureCount
          /\ _requestLicenseFailureCount' = _requestLicenseFailureCount + 1
          /\ IF RetryAllowed(_requestLicenseFailureCount + 1)
             THEN LET r == _requestLicense(x, xhrs[x].keyMessage) IN
                    /\ xhrs' = [xhrs EXCEPT ![x] =
                         IF r.sent THEN [@ EXCEPT !.sends = @ + 1] ELSE NoXhr]
                    /\ out' = r.out
             ELSE /\ xhrs' = [xhrs EXCEPT ![x] = NoXhr]
                  /\ out' = <<ErrorEvent(KEY_SYSTEM_LICENSE_REQUEST_FAILED, TRUE)>>
  /\ UNCHANGED <<bindingList, listeners>>
  /\ UNCHANGED <<config, _hasSetMediaKeys, _media, _mediaKeysList, _mediaKeysPromise,
                 promises, items, sessions, elementKeys, teardowns,
                 keysSetSinceAttach>>

\* mutation of GenerateRequestFailed: the error is fatal
GenerateRequestFailedFatal == ErrorEvent(KEY_SYSTEM_NO_SESSION, TRUE)

\* the event triggered by the catch of generateRequest(...)
GenerateRequestFailed == ErrorEvent(KEY_SYSTEM_NO_SESSION, FALSE)

\* the promise of session.generateRequest() settles
GenerateRequestSettled(s, ok) ==
  /\ items[s].mediaKeysSession
  /\ sessions[s].request = "pending"
  /\ sessions' = [sessions EXCEPT ![s].request = IF ok THEN "resolved" ELSE "rejected"]
  /\ out' = IF ok THEN <<>> ELSE <<GenerateRequestFailed>>
  /\ UNCHANGED <<bindingList, listeners>>
  /\ UNCHANGED <<config, _hasSetMediaKeys, _media, _mediaKeysList, _mediaKeysPromise,
                 _requestLicenseFailureCount, promises, items, elementKeys, xhrs,
                 teardowns, keysSetSinceAttach>>

\* ----------------------------------------------------------- key statuses

KeyStatuses == {"usable", "expired", "output-downscaled", "output-restricted"}

KeyStatusCollections ==
  UNION {[1..n -> KeyStatuses] : n \in 0..MaxStatuses}

\* mutation of InvalidStatus: 'output-downscaled' is let through
OnlyRestrictedInvalid(status) == status = "output-restricted"

\* `status === 'output-downscaled' || status === 'output-restricted'`
InvalidStatus(status) == status \in {"output-downscaled", "output-restricted"}

RECURSIVE StatusErrors(_)
StatusErrors(statuses) ==
  IF statuses = <<>> THEN <<>>
  ELSE (IF InvalidStatus(Head(statuses))
        THEN <<ErrorEvent(KEY_SYSTEM_LICENSE_INVALID_STATUS, TRUE)>> ELSE <<>>)
       \o StatusErrors(Tail(statuses))

\* the session's 'keystatuseschange' listener
_onKeySessionKeyStatusesChange(s, statuses) ==
  /\ SessionLive(s)
  /\ out' = StatusErrors(statuses)
  /\ UNCHANGED <<bindingList, listeners>>
  /\ UNCHANGED <<config, _hasSetMediaKeys, _media, _mediaKeysList, _mediaKeysPromise,
                 _requestLicenseFailureCount, promises, items, sessions,
                 elementKeys, xhrs, teardowns, keysSetSinceAttach>>

\* -------------------------------------------------------- onMediaDetached

\* mutation of WithSession: no session is found to close
NoSessionToClose(list) == <<>>

\* the tracked items that have a session, in list order
WithSession(list) == SelectSeq(list, LAMBDA r : items[r].mediaKeysSession)

\* close() succeeds on a session that generated a request; on any other it
\* fails, by a synchronous throw or by a rejected promise
Closable(s) == sessions[s].request \in {"pending", "resolved"}

Range(seq) == {seq[i] : i \in 1..Len(seq)}

\* the first `then` of the chain: media.setMediaKeys(null), and, when that
\* throws, the second `then` in the same task
ClearMediaKeys(m, throws) ==
  [out |-> <<Call("setMediaKeys", m, <<>>, 0)>>
           \o (IF throws THEN <<EmeDestroyed>> ELSE <<>>),
   pc |-> IF throws THEN "done" ELSE "clearing",
   signalled |-> throws]

\* mutation of NoMediaBound: the early return is never taken
AlwaysMediaBound == FALSE

\* the guard `if (!media) return`
NoMediaBound == _media = 0

onMediaDetached ==
  /\ IF NoMediaBound
     THEN /\ out' = <<>>
          /\ UNCHANGED <<_media, _mediaKeysList, sessions, teardowns, elementKeys>>
     ELSE /\ Len(teardowns) < MaxDetach
          /\ _media' = 0
          /\ _mediaKeysList' = <<>>
          /\ LET ws == WithSession(_mediaKeysList)
                 closes == [i \in 1..Len(ws) |-> Call("close", ws[i], <<>>, 0)]
             IN \E thrown \in SUBSET {s \in Range(ws) : ~Closable(s)} :
                \E clearThrows \in BOOLEAN :
                  LET pending == Range(ws) \ thrown
                      clear == ClearMediaKeys(_media, clearThrows)
                  IN /\ sessions' = [s \in Flows |->
                          IF s \in Range(ws) /\ Closable(s)
                          THEN [sessions[s] EXCEPT !.closed = TRUE] ELSE sessions[s]]
                     /\ IF pending # {}
                        THEN /\ ~clearThrows
                             /\ teardowns' = Append(teardowns,
                                  [media |-> _media, pending |-> pending,
                                   failing |-> {s \in pending : ~Closable(s)},
                                   pc |-> "closing", signalled |-> FALSE])
                             /\ out' = closes
                             /\ UNCHANGED elementKeys
                        ELSE /\ teardowns' = Append(teardowns,
                                  [media |-> _media, pending |-> {}, failing |-> {},
                                   pc |-> clear.pc, signalled |-> clear.signalled])
                             /\ out' = closes \o clear.out
                             /\ elementKeys' = IF clearThrows THEN elementKeys
                                  ELSE [elementKeys EXCEPT ![_media] = 0]
  /\ UNCHANGED <<bindingList, listeners>>
  /\ UNCHANGED <<config, _hasSetMediaKeys, _mediaKeysPromise,
                 _requestLicenseFailureCount, promises, items, xhrs,
                 keysSetSinceAttach>>

\* the promise of a session's close() settles
CloseSettled(t, s, clearThrows) ==
  /\ t \in 1..Len(teardowns)
  /\ teardowns[t].pc = "closing"
  /\ s \in teardowns[t].pending
  /\ IF s \in teardowns[t].failing
     THEN \* Promise.all rejects: both `then` are skipped, `catch` swallows
          /\ ~clearThrows
          /\ teardowns' = [teardowns EXCEPT ![t].pc = "abandoned", ![t].pending = {},
                                            ![t].failing = {}]
          /\ out' = <<>>
          /\ UNCHANGED elementKeys
     ELSE IF teardowns[t].pending # {s}
     THEN /\ ~clearThrows
          /\ teardowns' = [teardowns EXCEPT ![t].pending = @ \ {s}]
          /\ out' = <<>>
          /\ UNCHANGED elementKeys
     ELSE LET clear == ClearMediaKeys(teardowns[t].media, clearThrows) IN
          /\ teardowns' = [teardowns EXCEPT ![t].pending = {}, ![t].pc = clear.pc,
                                            ![t].signalled = clear.signalled]
          /\ out' = clear.out
          /\ elementKeys' = IF clearThrows THEN elementKeys
                            ELSE [elementKeys EXCEPT ![teardowns[t].media] = 0]
  /\ UNCHANGED <<bindingList, listeners>>
  /\ UNCHANGED <<config, _hasSetMediaKeys, _media, _mediaKeysList, _mediaKeysPromise,
                 _requestLicenseFailureCount, promises, items, sessions, xhrs,
                 keysSetSinceAttach>>

\* the promise of media.setMediaKeys(null) settles
ClearSettled(t, ok) ==
  /\ t \in 1..Len(teardowns)
  /\ teardowns[t].pc = "clearing"
  /\ teardowns' = [teardowns EXCEPT ![t].pc = IF ok THEN "done" ELSE "abandoned",
                                    ![t].signalled = ok]
  /\ out' = IF ok THEN <<EmeDestroyed>> ELSE <<>>
  /\ UNCHANGED <<bindingList, listeners>>
  /\ UNCHANGED <<config, _hasSetMediaKeys, _media, _mediaKeysList, _mediaKeysPromise,
                 _requestLicenseFailureCount, promises, items, sessions,
                 elementKeys, xhrs, keysSetSinceAttach>>

\* ---------------------------------------------------------- specification

\* ------------------------------------- EventManager (mediakeys-helper.js)

Targets == 1..NumTargets
EventNames == {"webkitkeymessage", "webkitkeyadded"}
Handlers == 1..NumHandlers

\* the `newHandler` closures made by once(), each a function of its own
OnceHandlers == (NumHandlers + 1)..(NumHandlers + MaxOnce)

\* `{ target, event, handler }`
Binding(target, event, handler) ==
  [target |-> target, event |-> event, handler |-> handler]

\* the state of the controller, which the EventManager does not touch
controllerVars ==
  <<config, _hasSetMediaKeys, _media, _mediaKeysList, _mediaKeysPromise,
    _requestLicenseFailureCount, promises, items, sessions, elementKeys,
    xhrs, teardowns, keysSetSinceAttach>>

\* the part of the state a call on the EventManager threads
EventManagerState == [list |-> bindingList, listeners |-> listeners, out |-> <<>>]

CommitEventManager(e) ==
  /\ bindingList' = e.list
  /\ listeners' = e.listeners
  /\ out' = e.out
  /\ UNCHANGED controllerVars

\* bindingList.findIndex(...); 0 stands for -1
findIndex(list, b) ==
  IF \E i \in DOMAIN list : list[i] = b
  THEN CHOOSE i \in DOMAIN list : list[i] = b /\ \A j \in 1..(i - 1) : list[j] # b
  ELSE 0

\* bindingList.splice(index, 1)
splice(list, index) == SubSeq(list, 1, index - 1) \o SubSeq(list, index + 1, Len(list))

\* EventManager.off
off(e, b) ==
  LET index == findIndex(e.list, b) IN
    IF index = 0 THEN e
    ELSE [list |-> splice(e.list, index),
          listeners |-> e.listeners \ {b},
          out |-> Append(e.out,
                    Ev("removeEventListener", b.target, b.event, FALSE, <<>>, b.handler))]

\* EventManager.on: the target keeps one listener per event and handler
on(target, event, handler) ==
  /\ Len(bindingList) < MaxBindings
  /\ LET b == Binding(target, event, handler) IN
       CommitEventManager(
         [list |-> Append(bindingList, b),
          listeners |-> listeners \cup {b},
          out |-> <<Ev("addEventListener", target, event, FALSE, <<>>, handler)>>])

\* the closures of once() that no binding and no target holds
FreeOnceHandlers ==
  {h \in OnceHandlers :
     \A b \in listeners \cup {bindingList[i] : i \in DOMAIN bindingList} : b.handler # h}

\* EventManager.once
once(target, event) ==
  /\ FreeOnceHandlers # {}
  /\ on(target, event, CHOOSE h \in FreeOnceHandlers : \A g \in FreeOnceHandlers : h <= g)

\* the target dispatches the event to a closure of once(): `this.off(...)`
newHandler(b) ==
  /\ b \in listeners
  /\ b.handler \in OnceHandlers
  /\ CommitEventManager(off(EventManagerState, b))

\* Array.prototype.forEach over bindingList with `off` as its body: the indexes
\* below the length read at the start, each visited only if the array still has it
RECURSIVE forEachOff(_, _, _)
forEachOff(e, k, len) ==
  IF k > len THEN e
  ELSE IF k > Len(e.list) THEN forEachOff(e, k + 1, len)
  ELSE forEachOff(off(e, e.list[k]), k + 1, len)

\* EventManager.removeAll
removeAll ==
  CommitEventManager(forEachOff(EventManagerState, 1, Len(bindingList)))

\* one task of the event loop; at most `limit` access queries are started
Step(limit, manifests) ==
  \/ \E m \in Media : onMediaAttached(m)
  \/ onMediaDetached
  \/ \E levels \in manifests : onManifestParsed(levels, limit)
  \/ \E initData \in 0..1 : _onMediaEncrypted(initData)
  \/ \E f \in Flows : AccessRejected(f)
  \/ \E f \in Flows : _onMediaKeySystemAccessObtained(f)
  \/ \E f \in Flows : CreateMediaKeysRejected(f)
  \/ \E f \in Flows : \E b \in BOOLEAN : MediaKeysCreated(f, b)
  \/ \E f \in Flows : \E status \in PolicyStatuses : StatusForPolicy(f, status)
  \/ \E s \in Flows : \E ok \in BOOLEAN : GenerateRequestSettled(s, ok)
  \/ \E s \in Flows : \E m \in KeyMessages(promises[s].keySystem) : _onKeySessionMessage(s, m)
  \/ \E x \in Exchanges : \E ok \in BOOLEAN : \E response \in Responses :
       _onLicenseRequestReadyStageChange(x, ok, response)
  \/ \E t \in 1..MaxDetach : \E s \in Flows : \E b \in BOOLEAN : CloseSettled(t, s, b)
  \/ \E t \in 1..MaxDetach : \E ok \in BOOLEAN : ClearSettled(t, ok)

\* every configuration, one negotiation
Next ==
  \/ Step(MaxNegotiations, OneLevel)
  \/ \E s \in Flows : \E st \in KeyStatusCollections : _onKeySessionKeyStatusesChange(s, st)

Spec == Init /\ [][Next]_vars

\* DRM enabled with only the Widevine license URL, renegotiation allowed
InitWidevine ==
  /\ Init
  /\ config.emeEnabled
  /\ config.requestMediaKeySystemAccessFunc
  /\ config.widevineLicenseUrl
  /\ ~config.playreadyLicenseUrl

NextRenegotiate == Step(MaxFlows, OneLevel)

SpecRenegotiate == InitWidevine /\ [][NextRenegotiate]_vars

\* the capability negotiation alone: one key-system configured, any robustness
\* options, any manifest of up to MaxLevels levels
CapabilityConfigs ==
  {c \in [emeEnabled : {TRUE}, playreadyLicenseUrl : BOOLEAN,
          widevineLicenseUrl : BOOLEAN, requestMediaKeySystemAccessFunc : {TRUE},
          minHdcpVersion : {FALSE},
          drmSystemOptions : [audioRobustness : RobustnessOptions,
                              videoRobustness : RobustnessOptions]] :
     c.playreadyLicenseUrl # c.widevineLicenseUrl}

InitCapabilities == InitFrom(CapabilityConfigs)

NextCapabilities == \E levels \in LevelLists : onManifestParsed(levels, MaxNegotiations)

SpecCapabilities == InitCapabilities /\ [][NextCapabilities]_vars

\* the EventManager alone, the controller idle
InitEventManager ==
  InitFrom({c \in Configs : ~c.emeEnabled /\ ~c.requestMediaKeySystemAccessFunc
                            /\ ~c.widevineLicenseUrl /\ ~c.playreadyLicenseUrl
                            /\ ~c.minHdcpVersion})

NextEventManager ==
  \/ \E target \in Targets : \E event \in EventNames : \E handler \in Handlers :
       on(target, event, handler)
  \/ \E target \in Targets : \E event \in EventNames : once(target, event)
  \/ \E b \in listeners : newHandler(b)
  \/ removeAll

SpecEventManager == InitEventManager /\ [][NextEventManager]_vars

\* ------------------------------------------------------------- properties

WidevineOnly ==
  /\ config.emeEnabled
  /\ config.requestMediaKeySystemAccessFunc
  /\ config.widevineLicenseUrl
  /\ ~config.playreadyLicenseUrl

\* the positions of the calls named `name` in what a task did
CallsOf(seq, name) == {i \in DOMAIN seq : seq[i].t = name}

\* the negotiation whose promise the controller tracks has resolved
ChainResolved ==
  /\ _mediaKeysPromise # 0
  /\ promises[_mediaKeysPromise].phase = "resolved"

\* C1: with only a Widevine license URL configured and the access function
\* supplied, once the negotiation chain has resolved with a session on the
\* tracked record, an 'encrypted' signal with non-null init data leaves exactly
\* one generateRequest call on that session (the handler makes the call unless
\* it was made before), and a 'message' signal of that session sends exactly one
\* license POST whose body is the key message, byte for byte.
C1_WidevineEndToEnd ==
  [][ /\ \A s \in Flows :
           ( /\ WidevineOnly
             /\ ChainResolved
             /\ _mediaKeysList # <<>>
             /\ _mediaKeysList[1] = s
             /\ items[s].mediaKeysSession
             /\ _onMediaEncrypted(1) )
           => /\ sessions'[s].generateRequestCalls = 1
              /\ Cardinality(CallsOf(out', "generateRequest"))
                   = (IF items[s].mediaKeysSessionInitialized THEN 0 ELSE 1)
      /\ \A s \in Flows : \A m \in KeyMessages(WIDEVINE) :
           ( /\ WidevineOnly
             /\ _mediaKeysList # <<>>
             /\ _mediaKeysList[1] = s
             /\ _onKeySessionMessage(s, m) )
           => \E x \in Exchanges : out' = <<Call("xhr.send", x, m.raw, 0)>>
    ]_vars

\* C1 witness: the POST of a Widevine exchange has just been sent, its body the
\* key message, on a session whose generateRequest was called once
C1_Witness ==
  /\ WidevineOnly
  /\ _media # 0
  /\ \E x \in Exchanges :
       /\ xhrs[x].state = "sent"
       /\ xhrs[x].sends = 1
       /\ out = <<Call("xhr.send", x, xhrs[x].keyMessage.raw, 0)>>
       /\ sessions[xhrs[x].session].generateRequestCalls = 1

\* a non-200 completion of exchange x
NonOkCompletion(x) ==
  \E response \in Responses : _onLicenseRequestReadyStageChange(x, FALSE, response)

\* exchange x has been re-sent by this step
Resent(x) ==
  /\ xhrs'[x] = [xhrs[x] EXCEPT !.sends = @ + 1]
  /\ \E i \in DOMAIN out' : out'[i].t = "xhr.send" /\ out'[i].id = x

\* exchange x has been failed for good by this step
FailedForGood(x) ==
  /\ xhrs'[x].state = "none"
  /\ out' = <<ErrorEvent(KEY_SYSTEM_LICENSE_REQUEST_FAILED, TRUE)>>

C4_OwnBudget ==
  [][ \A x \in Exchanges :
        (xhrs[x].state = "sent" /\ FailedForGood(x)) => xhrs[x].sends = 4
    ]_vars

\* C5: sessionInitialized goes from false to true at most once and never back,
\* and generateRequest is called at most once on a session, exactly when the
\* flag is set.
C5_InitializedOnce ==
  /\ [](\A s \in Flows :
          /\ sessions[s].generateRequestCalls <= 1
          /\ items[s].mediaKeysSessionInitialized
               <=> (sessions[s].generateRequestCalls = 1))
  /\ [][ \A s \in Flows :
           /\ items[s].mediaKeysSessionInitialized
                => items'[s].mediaKeysSessionInitialized
           /\ sessions'[s].generateRequestCalls >= sessions[s].generateRequestCalls
       ]_vars

\* C5 witness: generateRequest has just been called on the tracked session, the
\* flag is set and the call count is one
C5_Witness ==
  /\ _mediaKeysList # <<>>
  /\ items[_mediaKeysList[1]].mediaKeysSessionInitialized
  /\ sessions[_mediaKeysList[1]].generateRequestCalls = 1
  /\ CallsOf(out, "generateRequest") # {}

\* C6: whenever a license request is sent, the list holds a record whose CDM
\* handle is set.
C6_SendHasMediaKeys ==
  (CallsOf(out, "xhr.send") # {})
    => \E i \in DOMAIN _mediaKeysList : items[_mediaKeysList[i]].mediaKeys

\* C7: between an attach and the next detach, setMediaKeys with a CDM handle is
\* called at most once on the element.
C7_SetMediaKeysOnce == keysSetSinceAttach <= 1

\* C7 witness: a second 'encrypted' signal, without init data, arrived after the
\* keys were attached: it raised NoInitData and did not call setMediaKeys
C7_Witness ==
  /\ _media # 0
  /\ keysSetSinceAttach = 1
  /\ _hasSetMediaKeys
  /\ out = <<ErrorEvent(KEY_SYSTEM_NO_INIT_DATA, TRUE)>>

\* C8: the keys-attached latch is false once the element is detached.
C8_LatchClearedOnDetach == (_media = 0) => ~_hasSetMediaKeys

\* C9: the list of records holds at most one element.
C9_SingleRecord == Len(_mediaKeysList) <= 1

\* C10: a teardown that has run to its end, by completing or by a failure of
\* close() or of the clearing of the element's keys, has emitted EME_DESTROYED.
C10_TeardownSignals ==
  \A t \in DOMAIN teardowns :
    teardowns[t].pc \in {"done", "abandoned"} => teardowns[t].signalled

\* C11: a detach with no media element bound raises no error, closes no
\* session, starts no teardown and emits no teardown-complete signal; it changes
\* nothing but the record of what the last task did.
C11_DetachIdempotent ==
  [][ (_media = 0 /\ onMediaDetached)
      => /\ out' = <<>>
         /\ sessions' = sessions
         /\ teardowns' = teardowns
         /\ _mediaKeysList' = _mediaKeysList
         /\ elementKeys' = elementKeys
    ]_vars

\* C11 witness: after an attach and a detach with no negotiation, a second
\* detach has run: the teardown of the first is still clearing the keys and the
\* last task did nothing
C11_Witness ==
  /\ _media = 0
  /\ Len(teardowns) = 1
  /\ teardowns[1].pc = "clearing"
  /\ \A f \in Flows : promises[f].phase = "none"
  /\ out = <<>>

\* C12: the platform access-query function is called only for a key-system
\* identifier that is WIDEVINE or PLAYREADY; for any other identifier (none is
\* selected when no license URL is configured) the attempt aborts before the call.
C12_NoQueryForUnknownKeySystem ==
  \A i \in DOMAIN out :
    out[i].t = "requestMediaKeySystemAccess"
      => KnownKeySystem(promises[out[i].id].keySystem)

\* C13: with a minimum output-protection version configured and a CDM that
\* answers policy queries, a query resolving with a status other than 'usable'
\* raises the fatal InvalidHdcpVersion error and creates no session for the record.
C13_PolicyStatusRejected ==
  [][ \A f \in Flows : \A status \in PolicyStatuses \ {"usable", "rejected"} :
        StatusForPolicy(f, status)
        => /\ \E i \in DOMAIN out' :
                out'[i] = ErrorEvent(KEY_SYSTEM_INVALID_HDCP_VERSION, TRUE)
           /\ ~items'[f].mediaKeysSession
    ]_vars

\* the fatal KeySystemNoAccess errors among what a task did
FatalNoAccess(seq) ==
  {i \in DOMAIN seq : seq[i] = ErrorEvent(KEY_SYSTEM_NO_ACCESS, TRUE)}

\* the rejection of an access query creates no record, and the access function
\* is called by metadata-parsed only
NoRecordNoRequery(f) ==
  /\ ~items'[f].pushed
  /\ _mediaKeysList' = _mediaKeysList
  /\ CallsOf(out', "requestMediaKeySystemAccess") = {}

\* C14 as stated: when the access query rejects, exactly one fatal
\* KeySystemNoAccess error is raised, no record is created, and the access
\* function is not called again unless a metadata-parsed event occurs.
C14_Original ==
  [][ /\ \A f \in Flows :
           AccessRejected(f)
           => Cardinality(FatalNoAccess(out')) = 1 /\ NoRecordNoRequery(f)
      /\ (CallsOf(out', "requestMediaKeySystemAccess") # {})
           => \E levels \in OneLevel : onManifestParsed(levels, MaxNegotiations)
    ]_vars

\* C14 amended: the rejection handler raises one fatal KeySystemNoAccess error,
\* first; every 'encrypted' signal queued on the attempt then runs and, with a
\* media element bound and no record tracked, raises one more; no record is
\* created then or later for that attempt, and the access function is called by
\* metadata-parsed only.
C14_AccessRejected ==
  [][ /\ \A f \in Flows :
           AccessRejected(f)
           => /\ out'[1] = ErrorEvent(KEY_SYSTEM_NO_ACCESS, TRUE)
              /\ Cardinality(FatalNoAccess(out'))
                   = 1 + (IF _media # 0 /\ _mediaKeysList = <<>>
                          THEN Len(promises[f].waiters) ELSE 0)
              /\ NoRecordNoRequery(f)
      /\ \A f \in Flows :
           (~items[f].pushed /\ promises[f].phase # "access") => ~items'[f].pushed
      /\ (CallsOf(out', "requestMediaKeySystemAccess") # {})
           => \E levels \in OneLevel : onManifestParsed(levels, MaxNegotiations)
    ]_vars

\* C14 witness: an access query was rejected with one 'encrypted' signal queued
\* on it: NoAccess of the handler, then NoKeys and NoAccess of the signal
C14_Witness ==
  /\ \E f \in Flows : promises[f].phase = "rejected" /\ ~items[f].pushed
  /\ out = <<ErrorEvent(KEY_SYSTEM_NO_ACCESS, TRUE),
             ErrorEvent(KEY_SYSTEM_NO_KEYS, TRUE),
             ErrorEvent(KEY_SYSTEM_NO_ACCESS, TRUE)>>

\* C15: an 'encrypted' signal arriving when no negotiation was started raises
\* the fatal NoKeys error and changes nothing else, so nothing is queued; no
\* continuation waits while no negotiation was started, and setMediaKeys and
\* generateRequest are called only by a signal that found a negotiation, in its
\* own turn or when the promise it waits on settles.
C15_EncryptedWithoutNegotiation ==
  /\ [][ \A d \in 0..1 :
           (_mediaKeysPromise = 0 /\ _onMediaEncrypted(d))
           => /\ out' = <<ErrorEvent(KEY_SYSTEM_NO_KEYS, TRUE)>>
              /\ UNCHANGED <<config, _hasSetMediaKeys, _media, _mediaKeysList,
                             _mediaKeysPromise, _requestLicenseFailureCount,
                             promises, items, sessions, elementKeys, xhrs,
                             teardowns, keysSetSinceAttach>>
       ]_vars
  /\ [](_mediaKeysPromise = 0 => \A f \in Flows : promises[f].waiters = <<>>)
  /\ [][ (CallsOf(out', "generateRequest") # {}
            \/ \E i \in CallsOf(out', "setMediaKeys") : out'[i].data # <<>>)
         => /\ _mediaKeysPromise # 0
            /\ \/ \E d \in 0..1 : _onMediaEncrypted(d)
               \/ \E f \in Flows : promises[f].waiters # <<>>
       ]_vars

\* C15 witness: with media attached and no negotiation started, an 'encrypted'
\* signal has raised NoKeys
C15_Witness ==
  /\ _media # 0
  /\ _mediaKeysPromise = 0
  /\ out = <<ErrorEvent(KEY_SYSTEM_NO_KEYS, TRUE)>>

\* C16: requesting key-session generation for a tracked record whose
\* sessionInitialized is already true is a no-op, whatever the init data: no
\* platform call, no error event, the record and its session unchanged.
C16_GenerateRequestNoOp ==
  \A d \in 0..1 :
    (_mediaKeysList # <<>> /\ items[_mediaKeysList[1]].mediaKeysSessionInitialized)
    => _generateRequestWithPreferredKeySession(Ctx, d) = Ctx

\* C16 witness: a second 'encrypted' signal arrived on the initialized record
\* while its request was pending and nothing else was going on: it did nothing
C16_Witness ==
  /\ _media # 0
  /\ _hasSetMediaKeys
  /\ _mediaKeysList = <<1>>
  /\ items[1].mediaKeysSessionInitialized
  /\ sessions[1].request = "pending"
  /\ \A f \in Flows \ {1} : promises[f].phase = "none"
  /\ \A x \in Exchanges : xhrs[x].state = "none"
  /\ teardowns = <<>>
  /\ out = <<>>

C18_KeySystemSelection ==
  [][ \A levels \in OneLevel :
        (config.emeEnabled /\ onManifestParsed(levels, MaxNegotiations))
        => /\ (config.playreadyLicenseUrl \/ config.widevineLicenseUrl)
                /\ config.requestMediaKeySystemAccessFunc
              => /\ Len(out') = 1
                 /\ out'[1].t = "requestMediaKeySystemAccess"
                 /\ promises'[out'[1].id].keySystem
                      = (IF config.playreadyLicenseUrl THEN PLAYREADY ELSE WIDEVINE)
           /\ ~(config.playreadyLicenseUrl \/ config.widevineLicenseUrl)
              => out'[1] = ErrorEvent(KEY_SYSTEM_LICENSE_REQUEST_FAILED, TRUE)
    ]_vars

\* C18 witness: with both license URLs configured, access has just been
\* requested for PLAYREADY
C18_Witness ==
  /\ config.playreadyLicenseUrl
  /\ config.widevineLicenseUrl
  /\ \E i \in DOMAIN out :
       /\ out[i].t = "requestMediaKeySystemAccess"
       /\ promises[out[i].id].keySystem = PLAYREADY

\* C19: for a PLAYREADY key message whose number of <name> elements differs from
\* its number of <value> elements, in either direction, no license request is
\* sent to the transport.
C19_MismatchedHeadersNotSent ==
  [][ \A s \in Flows : \A m \in KeyMessages(PLAYREADY) :
        (m.names # m.values /\ _onKeySessionMessage(s, m))
        => CallsOf(out', "xhr.send") = {}
    ]_vars

\* the robustness a capability entry is to carry for an option of drmSystemOptions
ExpectedRobustness(option) == IF option = "HW_SECURE_ALL" THEN "HW_SECURE_ALL" ELSE ""

\* C20: for WIDEVINE and PLAYREADY and any manifest of n levels, the access query
\* is given exactly one configuration, with n audio and n video capability
\* entries in the order of the levels, each with contentType
\* '<audio|video>/mp4; codecs="<codec>"' and with the configured robustness, ''
\* when none is configured; the PLAYREADY configuration has initDataTypes
\* ['cenc'], the WIDEVINE configuration has none.
C20_CapabilityConfigurations ==
  [][ \A levels \in LevelLists :
        onManifestParsed(levels, MaxNegotiations)
        => \E i \in CallsOf(out', "requestMediaKeySystemAccess") :
             LET keySystem == promises'[out'[i].id].keySystem
                 configurations == out'[i].data
             IN /\ keySystem \in {WIDEVINE, PLAYREADY}
                /\ Len(configurations) = 1
                /\ Len(configurations[1].audioCapabilities) = Len(levels)
                /\ Len(configurations[1].videoCapabilities) = Len(levels)
                /\ \A k \in 1..Len(levels) :
                     /\ configurations[1].audioCapabilities[k] =
                          [contentType |->
                             "audio/mp4; codecs=\"" \o levels[k].audioCodec \o "\"",
                           robustness |->
                             ExpectedRobustness(config.drmSystemOptions.audioRobustness)]
                     /\ configurations[1].videoCapabilities[k] =
                          [contentType |->
                             "video/mp4; codecs=\"" \o levels[k].videoCodec \o "\"",
                           robustness |->
                             ExpectedRobustness(config.drmSystemOptions.videoRobustness)]
                /\ configurations[1].initDataTypes
                     = (IF keySystem = PLAYREADY THEN <<"cenc">> ELSE <<>>)
    ]_vars

\* C20 witness: PLAYREADY access has been requested for a manifest of two
\* levels with an audio robustness configured and no video robustness
C20_Witness ==
  /\ config.drmSystemOptions = [audioRobustness |-> "HW_SECURE_ALL",
                                videoRobustness |-> Absent]
  /\ \E i \in CallsOf(out, "requestMediaKeySystemAccess") :
       /\ promises[out[i].id].keySystem = PLAYREADY
       /\ out[i].data =
            <<[initDataTypes |-> <<"cenc">>,
               audioCapabilities |->
                 <<[contentType |-> "audio/mp4; codecs=\"mp4a.40.2\"",
                    robustness |-> "HW_SECURE_ALL"],
                   [contentType |-> "audio/mp4; codecs=\"undefined\"",
                    robustness |-> "HW_SECURE_ALL"]>>,
               videoCapabilities |->
                 <<[contentType |-> "video/mp4; codecs=\"avc1.42E01E\"",
                    robustness |-> ""],
                   [contentType |-> "video/mp4; codecs=\"avc1.42E01E\"",
                    robustness |-> ""]>>]>>

\* C21: every error event raised has type KEY_SYSTEM_ERROR; the rejection of a
\* session's generateRequest raises one error, not fatal, and every error raised
\* by anything else is fatal.
C21_FatalFlags ==
  /\ [](\A i \in CallsOf(out, "error") : out[i].data = <<KEY_SYSTEM_ERROR>>)
  /\ [][ /\ \A s \in Flows :
              GenerateRequestSettled(s, FALSE)
              => /\ Len(out') = 1
                 /\ out'[1].t = "error"
                 /\ out'[1].d = KEY_SYSTEM_NO_SESSION
                 /\ ~out'[1].fatal
         /\ (\E i \in CallsOf(out', "error") : ~out'[i].fatal)
              => \E s \in Flows : GenerateRequestSettled(s, FALSE)
       ]_vars

\* C21 witness: the rejection of generateRequest has been reported, not fatal
C21_Witness ==
  /\ \E s \in Flows : sessions[s].request = "rejected"
  /\ out = <<ErrorEvent(KEY_SYSTEM_NO_SESSION, FALSE)>>

\* C22: with no access function configured, a metadata-parsed event (DRM
\* enabled) raises fatal license-system errors and nothing else, creates no
\* record and starts no negotiation; no negotiation is ever tracked, and an
\* 'encrypted' signal raises NoKeys.
C22_NoAccessFunction ==
  /\ [][ \A levels \in OneLevel :
           ( /\ config.emeEnabled
             /\ ~config.requestMediaKeySystemAccessFunc
             /\ onManifestParsed(levels, MaxNegotiations) )
           => /\ out' # <<>>
              /\ \A i \in DOMAIN out' :
                   out'[i] = ErrorEvent(KEY_SYSTEM_LICENSE_REQUEST_FAILED, TRUE)
              /\ UNCHANGED <<_mediaKeysList, _mediaKeysPromise, promises, items>>
       ]_vars
  /\ [](~config.requestMediaKeySystemAccessFunc
          => /\ _mediaKeysPromise = 0
             /\ _mediaKeysList = <<>>
             /\ \A f \in Flows : promises[f].phase = "none" /\ ~items[f].pushed)
  /\ [][ \A d \in 0..1 :
           (~config.requestMediaKeySystemAccessFunc /\ _onMediaEncrypted(d))
           => out' = <<ErrorEvent(KEY_SYSTEM_NO_KEYS, TRUE)>>
       ]_vars

\* C22 witness: with a Widevine URL and no access function, metadata-parsed has
\* raised the one error of the missing function
C22_Witness ==
  /\ config.emeEnabled
  /\ ~config.requestMediaKeySystemAccessFunc
  /\ config.widevineLicenseUrl
  /\ _mediaKeysPromise = 0
  /\ out = <<ErrorEvent(KEY_SYSTEM_LICENSE_REQUEST_FAILED, TRUE)>>

\* the teardown chains that this step has brought to the clearing of the keys
ClosingEnded ==
  {t \in DOMAIN teardowns' :
     /\ teardowns'[t].pending = {}
     /\ teardowns'[t].pc \in {"clearing", "done"}
     /\ (t \in DOMAIN teardowns => teardowns[t].pc = "closing")}

\* C23: a detach with media bound unbinds the element, so that 'encrypted'
\* signals are handled only while an element is bound, and calls close on every
\* tracked session; setMediaKeys(null) is called on the element only in the turn
\* in which the last of those closes has settled, after the close calls; and
\* EME_DESTROYED is emitted only in the turn in which setMediaKeys(null) has
\* settled, after that call when it threw.
C23_TeardownOrder ==
  [][ /\ (_media # 0 /\ onMediaDetached)
         => /\ _media' = 0
            /\ \A r \in Range(_mediaKeysList) :
                 items[r].mediaKeysSession
                   => \E i \in DOMAIN out' : out'[i] = Call("close", r, <<>>, 0)
      /\ \A d \in 0..1 : _onMediaEncrypted(d) => _media # 0
      /\ \A i \in CallsOf(out', "setMediaKeys") :
           out'[i].data = <<>>
           => /\ \E t \in ClosingEnded : teardowns'[t].media = out'[i].id
              /\ \A k \in CallsOf(out', "close") : k < i
      /\ \A i \in CallsOf(out', "EME_DESTROYED") :
           \E t \in DOMAIN teardowns' :
             /\ teardowns'[t].pc = "done"
             /\ teardowns'[t].signalled
             /\ IF t \in DOMAIN teardowns /\ teardowns[t].pc = "clearing"
                THEN CallsOf(out', "setMediaKeys") = {}
                ELSE /\ t \in ClosingEnded
                     /\ \E k \in CallsOf(out', "setMediaKeys") :
                          k < i /\ out'[k].data = <<>>
    ]_vars

\* C23 witness: a teardown that closed a session has cleared the keys and has
\* just emitted EME_DESTROYED
C23_Witness ==
  /\ \E t \in DOMAIN teardowns : teardowns[t].pc = "done" /\ teardowns[t].signalled
  /\ \E s \in Flows : sessions[s].closed
  /\ out = <<EmeDestroyed>>

\* C24: a detach leaves every license exchange in flight as it is, and a
\* license request that completes with status 200 calls update on its session
\* with the response bytes and nothing else, whether or not the element was
\* detached and the session closed in the meantime.
C24_LicenseAfterDetach ==
  [][ /\ onMediaDetached => xhrs' = xhrs
      /\ \A x \in Exchanges : \A response \in Responses :
           _onLicenseRequestReadyStageChange(x, TRUE, response)
             => /\ xhrs[x].state = "sent"
                /\ out' = <<Call("update", xhrs[x].session, response, 0)>>
    ]_vars

\* C24 witness: with the element detached and the session closed, the response
\* of a license request has just been passed to update on that session
C24_Witness ==
  /\ _media = 0
  /\ teardowns # <<>>
  /\ \E s \in Flows : \E response \in Responses :
       /\ sessions[s].closed
       /\ out = <<Call("update", s, response, 0)>>

\* C25: in every state in which no media element is bound after a detach, the
\* list of tracked records is empty.
C25_RecordsDestroyedOnDetach ==
  (_media = 0 /\ teardowns # <<>>) => _mediaKeysList = <<>>

\* the settling of flow f that runs _onMediaKeysCreated
RunsOnMediaKeysCreated(f) ==
  \/ \E h \in BOOLEAN : ~(config.minHdcpVersion /\ h) /\ MediaKeysCreated(f, h)
  \/ StatusForPolicy(f, "usable")

\* C26: whenever _onMediaKeysCreated runs, every tracked record that lacks a
\* session, and for which it therefore calls mediaKeys.createSession(), has its
\* mediaKeys set (the record of the flow whose createMediaKeys() just resolved
\* has had it set in the same turn).
C26_MediaKeysSetWhenSessionCreated ==
  [][ \A f \in Flows :
        RunsOnMediaKeysCreated(f)
          => \A r \in Range(_mediaKeysList) :
               ~items[r].mediaKeysSession => (items[r].mediaKeys \/ r = f)
    ]_vars

\* the promise of flow f has settled, with success or with failure
Settled(ps, f) == ps[f].phase \in {"resolved", "rejected"}

\* the NoKeys errors, and the setMediaKeys calls with a CDM handle, in seq
NoKeysErrors(seq) == {i \in CallsOf(seq, "error") : seq[i].d = KEY_SYSTEM_NO_KEYS}
KeysAttachments(seq) == {i \in CallsOf(seq, "setMediaKeys") : seq[i].data # <<>>}

\* what k runs of the continuation in one turn leave behind when an element is
\* bound: each run found the latch set, or set it with one setMediaKeys call, or
\* raised NoKeys; when no element is bound the runs return at once
RanOncePerSignal(k) ==
  IF _media = 0
  THEN /\ KeysAttachments(out') = {}
       /\ CallsOf(out', "generateRequest") = {}
       /\ NoKeysErrors(out') = {}
  ELSE /\ Cardinality(CallsOf(out', "generateRequest")) <= 1
       /\ IF _hasSetMediaKeys'
          THEN /\ NoKeysErrors(out') = {}
               /\ Cardinality(KeysAttachments(out')) = (IF _hasSetMediaKeys THEN 0 ELSE 1)
          ELSE /\ Cardinality(NoKeysErrors(out')) = k
               /\ KeysAttachments(out') = {}

\* C27: an 'encrypted' signal that finds a negotiation runs the continuation
\* once in its own turn when the promise has settled, with success or with
\* failure, and otherwise only queues it; the turn that settles a promise, either
\* way, runs every queued continuation once and empties the queue; setMediaKeys
\* with a handle and generateRequest are called only in such turns.
C27_ContinuationOnce ==
  [][ /\ \A d \in 0..1 :
           (_mediaKeysPromise # 0 /\ _onMediaEncrypted(d))
           => IF Settled(promises, _mediaKeysPromise)
              THEN promises' = promises /\ RanOncePerSignal(1)
              ELSE /\ promises'[_mediaKeysPromise].waiters
                        = Append(promises[_mediaKeysPromise].waiters, d)
                   /\ out' = <<>>
                   /\ UNCHANGED <<_hasSetMediaKeys, items, sessions, elementKeys>>
      /\ \A f \in Flows :
           (~Settled(promises, f) /\ Settled(promises', f))
           => /\ promises'[f].waiters = <<>>
              /\ RanOncePerSignal(Len(promises[f].waiters))
      /\ (KeysAttachments(out') # {} \/ CallsOf(out', "generateRequest") # {})
           => \E f \in Flows :
                /\ Settled(promises', f)
                /\ ~Settled(promises, f) \/ f = _mediaKeysPromise
    ]_vars

\* C27 witness: the promise resolved with a continuation queued, which set the
\* keys and generated the request in the turn that created the session
C27_Witness ==
  /\ \E f \in Flows : promises[f].phase = "resolved" /\ promises[f].waiters = <<>>
  /\ Len(out) = 3
  /\ out[1].t = "createSession"
  /\ out[2].t = "setMediaKeys"
  /\ out[3].t = "generateRequest"

\* C28: whenever generateRequest is called on a session, an element is bound
\* and the keys attached to it by setMediaKeys are the CDM handle of that
\* session's record.
C28_KeysSetBeforeGenerateRequest ==
  \A i \in CallsOf(out, "generateRequest") :
    _media # 0 /\ elementKeys[_media] = out[i].id

\* the output-protection check of flow f has failed: getStatusForPolicy()
\* rejected, the one way in which a single negotiation ends rejected with its
\* CDM created
PolicyCheckFailed(f) ==
  /\ config.minHdcpVersion
  /\ promises[f].phase = "rejected"
  /\ items[f].mediaKeys

\* C29: an 'encrypted' signal handled after the output-protection check of a
\* negotiation has failed does not call setMediaKeys with the CDM handle of that
\* negotiation.
C29_FailedPolicyDiscardsKeys ==
  [][ \A d \in 0..1 : \A f \in Flows :
        (PolicyCheckFailed(f) /\ _onMediaEncrypted(d))
          => \A i \in KeysAttachments(out') : out'[i].data # <<f>>
    ]_vars

\* an 'encrypted' signal handled now runs its continuation at once and finds a
\* first record with a session that is not initialized
UninitializedSessionReady ==
  /\ _media # 0
  /\ _mediaKeysPromise # 0
  /\ Settled(promises, _mediaKeysPromise)
  /\ _mediaKeysList # <<>>
  /\ items[_mediaKeysList[1]].mediaKeysSession
  /\ ~items[_mediaKeysList[1]].mediaKeysSessionInitialized

\* C30: an 'encrypted' signal with null init data that finds a record with an
\* uninitialized session ends with the fatal NoInitData error, calls no
\* generateRequest, leaves the sessions untouched and the record uninitialized,
\* so that the same situation holds afterwards; the same holds for a queued
\* signal run when the promise settles; and a signal with non-null init data in
\* that situation calls generateRequest on the record's session with the init
\* data and marks the record initialized.
C30_NullInitData ==
  [][ /\ (UninitializedSessionReady /\ _onMediaEncrypted(0))
           => /\ out' # <<>>
              /\ out'[Len(out')] = ErrorEvent(KEY_SYSTEM_NO_INIT_DATA, TRUE)
              /\ CallsOf(out', "generateRequest") = {}
              /\ sessions' = sessions
              /\ UninitializedSessionReady'
      /\ \A f \in Flows :
           ( /\ ~Settled(promises, f) /\ Settled(promises', f)
             /\ promises[f].waiters = <<0>>
             /\ _media # 0 /\ _mediaKeysList # <<>>
             /\ items'[_mediaKeysList[1]].mediaKeysSession
             /\ ~items[_mediaKeysList[1]].mediaKeysSessionInitialized )
           => /\ out'[Len(out')] = ErrorEvent(KEY_SYSTEM_NO_INIT_DATA, TRUE)
              /\ CallsOf(out', "generateRequest") = {}
              /\ ~items'[_mediaKeysList[1]].mediaKeysSessionInitialized
      /\ (UninitializedSessionReady /\ _onMediaEncrypted(1))
           => /\ \E i \in DOMAIN out' :
                   out'[i] = Call("generateRequest", _mediaKeysList[1], <<1>>, 0)
              /\ items'[_mediaKeysList[1]].mediaKeysSessionInitialized
              /\ sessions'[_mediaKeysList[1]].request = "pending"
              /\ \A i \in CallsOf(out', "error") : out'[i].d # KEY_SYSTEM_NO_INIT_DATA
    ]_vars

\* C30 witness: a signal with null init data has just raised NoInitData for a
\* record whose session exists, is not initialized and was never asked to
\* generate a request
C30_Witness ==
  /\ UninitializedSessionReady
  /\ sessions[_mediaKeysList[1]].generateRequestCalls = 0
  /\ out # <<>>
  /\ out[Len(out)] = ErrorEvent(KEY_SYSTEM_NO_INIT_DATA, TRUE)

\* C31: for a PLAYREADY key message without a <Challenge> element, the license
\* request raises a fatal error and calls no xhr.send.
C31_MissingChallengeNotSent ==
  [][ \A s \in Flows : \A m \in KeyMessages(PLAYREADY) :
        (~m.hasChallenge /\ _onKeySessionMessage(s, m))
        => /\ \E i \in CallsOf(out', "error") : out'[i].fatal
           /\ CallsOf(out', "xhr.send") = {}
    ]_vars

\* C32: an exchange belongs to the session whose 'message' started it and keeps
\* it over re-sends; update is called only by a completion with status 200, once,
\* with the bytes of that response and on the session of the exchange, which is
\* then over; a completion with another status calls no update.
C32_UpdateOnlyOnSuccess ==
  [][ /\ \A s \in Flows : \A x \in Exchanges :
           ((\E m \in KeyMessages(WIDEVINE) \cup KeyMessages(PLAYREADY) :
                _onKeySessionMessage(s, m))
            /\ xhrs'[x] # xhrs[x] /\ xhrs'[x].state = "sent")
           => xhrs'[x].session = s
      /\ \A x \in Exchanges :
           NonOkCompletion(x)
           => /\ CallsOf(out', "update") = {}
              /\ xhrs'[x].state = "sent" => xhrs'[x].session = xhrs[x].session
      /\ \A x \in Exchanges : \A response \in Responses :
           _onLicenseRequestReadyStageChange(x, TRUE, response)
           => /\ out' = <<Call("update", xhrs[x].session, response, 0)>>
              /\ xhrs'[x] = NoXhr
      /\ CallsOf(out', "update") # {}
           => \E x \in Exchanges : \E response \in Responses :
                _onLicenseRequestReadyStageChange(x, TRUE, response)
    ]_vars

\* C32 witness: a license response with status 200 has just been passed to
\* update on a session that is still open, and the failure counter is reset
C32_Witness ==
  /\ _requestLicenseFailureCount = 0
  /\ \E s \in Flows : \E response \in Responses :
       /\ ~sessions[s].closed
       /\ sessions[s].generateRequestCalls = 1
       /\ out = <<Call("update", s, response, 0)>>

\* C33: a step taken while no media element is bound calls neither setMediaKeys
\* with a CDM handle nor generateRequest, the step that settles a promise on
\* which the continuation of an earlier 'encrypted' signal waits included.
C33_NoKeysWorkWhileDetached ==
  [][ _media = 0
        => /\ KeysAttachments(out') = {}
           /\ CallsOf(out', "generateRequest") = {}
    ]_vars

\* C33 witness: the element was detached while the continuation of an
\* 'encrypted' signal waits on a negotiation whose record is tracked again
C33_Witness ==
  /\ _media = 0
  /\ teardowns # <<>>
  /\ \E f \in Flows :
       /\ promises[f].waiters # <<>>
       /\ promises[f].phase = "createMediaKeys"
       /\ _mediaKeysList = <<f>>

\* C34: a step taken while no media element is bound after a detach calls no
\* xhr.send; in particular a completion with a status other than 200 does not
\* send the request again.
C34_NoSendWhileDetached ==
  [][ (_media = 0 /\ teardowns # <<>>) => CallsOf(out', "xhr.send") = {} ]_vars

\* C35: after removeAll() the binding list is empty and no binding that was in
\* it is still a listener of its target.
C35_RemoveAllClears ==
  [][ removeAll
        => /\ bindingList' = <<>>
           /\ \A i \in DOMAIN bindingList : bindingList[i] \notin listeners'
    ]_vars

====
